---------------------------- MODULE Spec2Model ----------------------------
(***************************************************************************)
(* A model of the restaurant supply calculator (src/main.py): the data     *)
(* manager SupplyData (load / save / add_item over a JSON file) and the    *)
(* event handlers of SupplyApp (calculate, the debounced recalculation     *)
(* timer, table cell edits, the add-item flow, save and exit).             *)
(*                                                                         *)
(* Numbers.  Every Python float of the program is modelled by an integer:  *)
(* the model's inputs are the integer-valued floats.  A required quantity  *)
(* is  total/1000*coef - inventory , which for integer operands has at     *)
(* most three decimals, so the table's  round(required, 3)  is kept        *)
(* exactly, in thousandths.  Non-finite floats ("nan", "inf") and          *)
(* exponents are outside the alphabet of the modelled texts.               *)
(*                                                                         *)
(* Text.  Every string a user types or a file holds is a sequence of       *)
(* one-character strings, so that float(), str() and strip() are computed  *)
(* character by character.  Weekday names are never inspected by the code  *)
(* and are plain strings.                                                  *)
(*                                                                         *)
(* Dictionaries.  A Python dict is a sequence of [k, v] records with       *)
(* distinct keys, in insertion order.                                      *)
(*                                                                         *)
(* Style.  A value computed once in the code and used several times is     *)
(* passed on as the argument of a helper operator (named ...With or        *)
(* ...After) instead of being bound by LET.                                *)
(***************************************************************************)
EXTENDS Integers, Sequences, FiniteSets, TLC

(***************************************************************************)
(* Text: str.strip(), float(str), str(float)                               *)
(***************************************************************************)
Digits == <<"0", "1", "2", "3", "4", "5", "6", "7", "8", "9">>

IsDigit(c) == \E i \in 1..10 : Digits[i] = c

DigitVal(c) == (CHOOSE i \in 1..10 : Digits[i] = c) - 1

RECURSIVE StripLeft(_)
StripLeft(t) ==
    IF t # <<>> /\ Head(t) = " " THEN StripLeft(Tail(t)) ELSE t

RECURSIVE StripRight(_)
StripRight(t) ==
    IF t # <<>> /\ t[Len(t)] = " " THEN StripRight(SubSeq(t, 1, Len(t) - 1)) ELSE t

\* str.strip(): leading and trailing blanks removed
Strip(t) == StripRight(StripLeft(t))

RECURSIVE DigitsVal(_)
DigitsVal(t) ==
    IF t = <<>> THEN 0
    ELSE 10 * DigitsVal(SubSeq(t, 1, Len(t) - 1)) + DigitVal(t[Len(t)])

\* the digits of t before its first "." (all of t when it has none)
RECURSIVE IntPart(_)
IntPart(t) ==
    IF t = <<>> \/ Head(t) = "." THEN <<>> ELSE <<Head(t)>> \o IntPart(Tail(t))

\* float(s) of a Python str: [ok |-> FALSE] stands for ValueError.  The
\* accepted numerals are  [sign] digits ["." [digits]]  and  [sign] "." digits ,
\* blanks around them ignored; the value is the integer part (the modelled
\* texts carry no non-zero fraction digit).
IsNumeral(body) ==
    /\ Cardinality({i \in 1..Len(body) : body[i] = "."}) <= 1
    /\ Cardinality({i \in 1..Len(body) : IsDigit(body[i])}) >= 1
    /\ \A i \in 1..Len(body) : body[i] = "." \/ IsDigit(body[i])

ParseSigned(neg, body) ==
    IF IsNumeral(body)
    THEN [ok |-> TRUE,
          val |-> IF neg THEN 0 - DigitsVal(IntPart(body)) ELSE DigitsVal(IntPart(body))]
    ELSE [ok |-> FALSE, val |-> 0]

ParseStripped(s) ==
    ParseSigned(s # <<>> /\ Head(s) = "-",
                IF s # <<>> /\ Head(s) \in {"-", "+"} THEN Tail(s) ELSE s)

ParseFloat(t) == ParseStripped(Strip(t))

RECURSIVE NatDigits(_)
NatDigits(n) ==
    IF n < 10 THEN <<Digits[n + 1]>>
    ELSE NatDigits(n \div 10) \o <<Digits[(n % 10) + 1]>>

\* str(x) of a Python float with an integral value: "5.0", "-12.0"
FormatFloat(n) ==
    (IF n < 0 THEN <<"-">> ELSE <<>>)
        \o NatDigits(IF n < 0 THEN 0 - n ELSE n) \o <<".", "0">>

(***************************************************************************)
(* dict: insertion-ordered, keys distinct                                  *)
(***************************************************************************)
Keys(d) == {d[i].k : i \in 1..Len(d)}

HasKey(d, k) == \E i \in 1..Len(d) : d[i].k = k

\* d[k]
Get(d, k) == d[CHOOSE i \in 1..Len(d) : d[i].k = k].v

\* d[k] = v : an existing key keeps its place, a new key is appended
Put(d, k, v) ==
    IF HasKey(d, k)
    THEN [i \in 1..Len(d) |-> IF d[i].k = k THEN [k |-> k, v |-> v] ELSE d[i]]
    ELSE Append(d, [k |-> k, v |-> v])

\* d.get(key, default)
GetOr(d, key, default) == IF HasKey(d, key) THEN Get(d, key) ELSE default

(***************************************************************************)
(* JSON values, as json.load returns them and json.dump writes them.       *)
(* A number is a float literal (5.0); an object is a dict.                 *)
(***************************************************************************)
JNull == [t |-> "null"]

JBool(b) == [t |-> "bool", b |-> b]

JNum(n) == [t |-> "num", n |-> n]

JStr(s) == [t |-> "str", s |-> s]

JList(l) == [t |-> "list", l |-> l]

JObj(o) == [t |-> "obj", o |-> o]

Value(n) == [err |-> "", val |-> n]

Raise(e) == [err |-> e, val |-> 0]

FloatOfStr(p) == IF p.ok THEN Value(p.val) ELSE Raise("ValueError")

\* float(v): TypeError for None, a list or a dict; ValueError for a str that
\* is no numeral; True and False are 1.0 and 0.0
FloatOf(v) ==
    CASE v.t = "num"  -> Value(v.n)
      [] v.t = "bool" -> Value(IF v.b THEN 1 ELSE 0)
      [] v.t = "str"  -> FloatOfStr(ParseFloat(v.s))
      [] OTHER        -> Raise("TypeError")

\* str(v) of a scalar
StrOf(v) ==
    CASE v.t = "str"  -> v.s
      [] v.t = "num"  -> FormatFloat(v.n)
      [] v.t = "bool" -> IF v.b THEN <<"T", "r", "u", "e">>
                         ELSE <<"F", "a", "l", "s", "e">>
      [] v.t = "null" -> <<"N", "o", "n", "e">>

\* bool(v)
Truthy(v) ==
    CASE v.t = "bool" -> v.b
      [] v.t = "num"  -> v.n # 0
      [] v.t = "str"  -> v.s # <<>>
      [] v.t = "list" -> v.l # <<>>
      [] v.t = "obj"  -> v.o # <<>>
      [] v.t = "null" -> FALSE

(***************************************************************************)
(* SupplyData.load, the branch that reads an existing file (lines 49-74)   *)
(***************************************************************************)
\* {k: float(v) for k, v in raw.items()}: the dict, or the first exception
RECURSIVE LoadEstimates(_, _)
LoadEstimatesWith(pairs, acc, f) ==
    IF f.err # "" THEN [err |-> f.err, d |-> <<>>]
    ELSE LoadEstimates(Tail(pairs), Put(acc, Head(pairs).k, f.val))

LoadEstimates(pairs, acc) ==
    IF pairs = <<>> THEN [err |-> "", d |-> acc]
    ELSE LoadEstimatesWith(pairs, acc, FloatOf(Head(pairs).v))

\* the triple built from float(v[0]), str(v[1]), float(v[2]), or the exception
ItemOf(coef, unit, inventory) ==
    IF coef.err # "" THEN [err |-> coef.err, item |-> <<0, <<>>, 0>>]
    ELSE IF inventory.err # "" THEN [err |-> inventory.err, item |-> <<0, <<>>, 0>>]
    ELSE [err |-> "", item |-> <<coef.val, unit, inventory.val>>]

\* a variant of lines 59-71 whose branch for length 2 drops the unit
LoadItemUnitless(v) ==
    IF v.t = "list" /\ Len(v.l) = 3
    THEN ItemOf(FloatOf(v.l[1]), StrOf(v.l[2]), FloatOf(v.l[3]))
    ELSE IF v.t = "list" /\ Len(v.l) = 2
    THEN ItemOf(FloatOf(v.l[1]), <<>>, Value(0))
    ELSE ItemOf(FloatOf(v), <<>>, Value(0))

\* lines 59-71: a list of length 3, a list of length 2, anything else
LoadItem(v) ==
    IF v.t = "list" /\ Len(v.l) = 3
    THEN ItemOf(FloatOf(v.l[1]), StrOf(v.l[2]), FloatOf(v.l[3]))
    ELSE IF v.t = "list" /\ Len(v.l) = 2
    THEN ItemOf(FloatOf(v.l[1]), StrOf(v.l[2]), Value(0))
    ELSE ItemOf(FloatOf(v), <<>>, Value(0))

\* the loop of lines 57-72 over raw_items.items(), filling `acc`; it stops at
\* the first exception with the entries stored so far
RECURSIVE LoadItems(_, _)
LoadItemsWith(pairs, acc, r) ==
    IF r.err # "" THEN [err |-> r.err, d |-> acc]
    ELSE LoadItems(Tail(pairs), Put(acc, Head(pairs).k, r.item))

LoadItems(pairs, acc) ==
    IF pairs = <<>> THEN [err |-> "", d |-> acc]
    ELSE LoadItemsWith(pairs, acc, LoadItem(Head(pairs).v))

Loaded(err, se, items, dm) == [err |-> err, se |-> se, items |-> items, dm |-> dm]

\* lines 56-74, once sales_estimates has been assigned
LoadAfterItems(se, it, rawDm, dm) ==
    IF it.err # "" THEN Loaded(it.err, se, it.d, dm)
    ELSE Loaded("", se, it.d, Truthy(rawDm))

\* lines 51-57: sales_estimates is assigned, supply_items is emptied, and
\* raw_items.items() raises for anything but a dict
LoadAfterEstimates(e, rawIt, rawDm, se, items, dm) ==
    IF e.err # "" THEN Loaded(e.err, se, items, dm)
    ELSE IF rawIt.t # "obj" THEN Loaded("AttributeError", e.d, <<>>, dm)
    ELSE LoadAfterItems(e.d, LoadItems(rawIt.o, <<>>), rawDm, dm)

LoadParts(rawSe, rawIt, rawDm, se, items, dm) ==
    IF rawSe.t # "obj" THEN Loaded("AttributeError", se, items, dm)
    ELSE LoadAfterEstimates(LoadEstimates(rawSe.o, <<>>), rawIt, rawDm, se, items, dm)

\* data.get("sales_estimates", {}) and data.get("supply_items", {}) (lines 52, 55)
RawEstimates(doc) == GetOr(doc.o, "sales_estimates", JObj(<<>>))

RawItems(doc) == GetOr(doc.o, "supply_items", JObj(<<>>))

\* load() of the document `doc` into a SupplyData whose fields are se, items, dm:
\* the fields afterwards, and the exception that ended it ("" for none)
LoadDoc(doc, se, items, dm) ==
    IF doc.t # "obj" THEN Loaded("AttributeError", se, items, dm)
    ELSE LoadParts(RawEstimates(doc), RawItems(doc),
                   GetOr(doc.o, "dark_mode", JBool(TRUE)),
                   se, items, dm)

(***************************************************************************)
(* SupplyData.save: the document json.dump writes (lines 78-88)            *)
(***************************************************************************)
\* a variant of line 79 that writes [coef, unit] only
SaveItemLegacy(item) == JList(<<JNum(item[1]), JStr(item[2])>>)

\* line 79: [coef, unit, inventory]
SaveItem(item) == JList(<<JNum(item[1]), JStr(item[2]), JNum(item[3])>>)

SaveDoc(se, items, dm) ==
    JObj(<<
        [k |-> "sales_estimates",
         v |-> JObj([i \in 1..Len(se) |-> [k |-> se[i].k, v |-> JNum(se[i].v)]])],
        [k |-> "supply_items",
         v |-> JObj([i \in 1..Len(items) |->
                      [k |-> items[i].k, v |-> SaveItem(items[i].v)]])],
        [k |-> "dark_mode", v |-> JBool(dm)]
    >>)

\* the Configuration load() creates when no file exists (lines 36-46)
Weekdays ==
    <<"Monday", "Tuesday", "Wednesday", "Thursday", "Friday", "Saturday", "Sunday">>

\* a variant of lines 36-44 with an illustrative estimate per day
IllustrativeEstimates == [i \in 1..7 |-> [k |-> Weekdays[i], v |-> 100]]

DefaultEstimates == [i \in 1..7 |-> [k |-> Weekdays[i], v |-> 0]]

(***************************************************************************)
(* SupplyData.add_item (lines 91-94)                                       *)
(***************************************************************************)
\* a variant of line 93 that keeps the inventory of an item already present
AddItemKeepingInventory(items, name, coef, unit) ==
    Put(items, name, <<coef, unit, IF HasKey(items, name) THEN Get(items, name)[3] ELSE 0>>)

AddItem(items, name, coef, unit) == Put(items, name, <<coef, unit, 0>>)

(***************************************************************************)
(* The table (ttk.Treeview): a row is the 5-tuple of values                *)
(* (Item, Unit, UPT Coefficient, Inventory, Required).  A value is the     *)
(* float calculate() inserted, or the str a cell edit put there; the       *)
(* Required value is round(required, 3) in thousandths.                    *)
(***************************************************************************)
StrCell(t) == [c |-> "str", s |-> t, n |-> 0]

FloatCell(n) == [c |-> "float", s |-> <<>>, n |-> n]

MilliCell(m) == [c |-> "milli", s |-> <<>>, n |-> m]

\* float(item_values[i]) under  except (ValueError, TypeError)
CellFloat(cell) ==
    IF cell.c = "str" THEN ParseFloat(cell.s) ELSE [ok |-> TRUE, val |-> cell.n]

\* str(item_values[i])
CellStr(cell) == IF cell.c = "str" THEN cell.s ELSE FormatFloat(cell.n)

(***************************************************************************)
(* SupplyApp.calculate (lines 330-372)                                     *)
(***************************************************************************)
\* lines 333-338: sales_estimates[day] = float(entry.get().strip()) for each day
\* entry in turn; `bad` is <<day>> for the first entry that raises ValueError
RECURSIVE UpdateEstimates(_, _)
UpdateEstimatesWith(se, entries, f) ==
    IF ~f.ok THEN [se |-> se, bad |-> <<Head(entries).k>>]
    ELSE UpdateEstimates(Put(se, Head(entries).k, f.val), Tail(entries))

UpdateEstimates(se, entries) ==
    IF entries = <<>> THEN [se |-> se, bad |-> <<>>]
    ELSE UpdateEstimatesWith(se, entries, ParseFloat(Head(entries).v))

\* a variant of lines 341-345 that sums every day, selected or not
RECURSIVE DaySumOfAll(_, _)
DaySumOfAll(se, checks) ==
    IF checks = <<>> THEN 0
    ELSE Get(se, Head(checks).k) + DaySumOfAll(se, Tail(checks))

\* lines 341-345: the sum of sales_estimates[day] over the checked days
RECURSIVE DaySum(_, _)
DaySum(se, checks) ==
    IF checks = <<>> THEN 0
    ELSE (IF Head(checks).v THEN Get(se, Head(checks).k) ELSE 0)
            + DaySum(se, Tail(checks))

\* a variant of line 350 that adds the override to the day sum
OverrideAdded(sum, value) == sum + value

\* line 350: total_sales = float(override), over the day sum held so far
OverrideTotal(sum, value) == value

\* a variant of lines 360-363 without the floor of lines 362-363
RequiredUnclamped(total, coef, inventory) == total * coef - 1000 * inventory

\* lines 360-363, in thousandths: total_sales / 1000 * coef - inventory, floored at 0
Required(total, coef, inventory) ==
    IF total * coef - 1000 * inventory < 0 THEN 0
    ELSE total * coef - 1000 * inventory

\* lines 365-369: the values of the row of one item
Row(name, item, total) ==
    <<StrCell(name), StrCell(item[2]), FloatCell(item[1]), FloatCell(item[3]),
      MilliCell(Required(total, item[1], item[3]))>>

\* lines 355-369: one row per supply item, in the dict's order
Rows(items, total) == [i \in 1..Len(items) |-> Row(items[i].k, items[i].v, total)]

\* a variant of the early returns of lines 337-338 and 352-353 that empties the table
AbortedCleared(se, rows, title, msg) ==
    [se |-> se, tree |-> <<>>, title |-> title, done |-> FALSE, msgs |-> <<msg>>]

\* lines 337-338 and 352-353: the message, and the return that leaves the table
Aborted(se, rows, title, msg) ==
    [se |-> se, tree |-> rows, title |-> title, done |-> FALSE, msgs |-> <<msg>>]

\* lines 355-372
Calculated(se, items, total) ==
    [se |-> se, tree |-> Rows(items, total), title |-> <<total>>, done |-> TRUE,
     msgs |-> <<[m |-> "Calculation done"]>>]

\* lines 349-353
CalculateOverride(se, sum, f, items, rows, title) ==
    IF ~f.ok THEN Aborted(se, rows, title, [m |-> "Override must be a number"])
    ELSE Calculated(se, items, OverrideTotal(sum, f.val))

\* lines 340-348
CalculateAfter(u, checks, override, items, rows, title) ==
    IF u.bad # <<>>
    THEN Aborted(u.se, rows, title, [m |-> "Invalid number for", day |-> u.bad[1]])
    ELSE IF Strip(override) # <<>>
    THEN CalculateOverride(u.se, DaySum(u.se, checks), ParseFloat(override), items,
                           rows, title)
    ELSE Calculated(u.se, items, DaySum(u.se, checks))

\* calculate(): what it leaves in sales_estimates, the table and the window
\* title, the messages it shows, and whether it ran to the end
Calculate(se, entries, checks, override, items, rows, title) ==
    CalculateAfter(UpdateEstimates(se, entries), checks, override, items, rows, title)

(***************************************************************************)
(* SupplyApp.schedule_recalculate (lines 374-382) over Tk's queue of       *)
(* pending callbacks.  Tk hands out a new id per after(); ids of the model *)
(* are reused once they are neither pending nor held in _recalc_after_id.  *)
(***************************************************************************)
MaxTimers == 2

FreshIds(queue, id) == {i \in 1..MaxTimers : i \notin queue /\ i # id}

\* root.after(delay_ms, self.calculate): id 0 when the model has none left
After(queue, free) ==
    IF free = {} THEN [queue |-> queue, id |-> 0]
    ELSE [queue |-> queue \cup {CHOOSE i \in free : \A j \in free : i <= j},
          id |-> CHOOSE i \in free : \A j \in free : i <= j]

\* a variant of lines 377-381 that leaves the previous callback pending
NotCancelled(queue, id) == queue

\* lines 377-381: after_cancel(_recalc_after_id) when it is set
Cancel(queue, id) == IF id # 0 THEN queue \ {id} ELSE queue

Schedule(queue, id) == After(Cancel(queue, id), FreshIds(Cancel(queue, id), id))

(***************************************************************************)
(* State                                                                   *)
(***************************************************************************)
VARIABLES
    file_exists,      \* os.path.exists(path)
    file_doc,         \* the JSON document of the file
    sales_estimates,  \* SupplyData.sales_estimates
    supply_items,     \* SupplyData.supply_items: name -> <<coef, unit, inventory>>
    dark_mode,        \* SupplyData.dark_mode
    dirty,            \* SupplyData.dirty
    day_vars,         \* SupplyApp.day_vars: day -> checkbox state
    day_entries,      \* SupplyApp.day_entries: day -> text of the entry
    override_entry,   \* text of SupplyApp.override_entry
    tree,             \* rows of SupplyApp.tree
    title,            \* <<total>> once calculate() has put a total in the window title
    messages,         \* the messages appended to SupplyApp.messages by the last handler,
                      \* or since it began by the handler that waits in a dialog
    after_queue,      \* ids of the calculate callbacks Tk still holds
    recalc_after_id,  \* SupplyApp._recalc_after_id, 0 while unset
    editor,           \* the cell editor on_tree_double_click opened
    dialog,           \* the answers SupplyApp.add_item has got from its dialogs so far
    pc,               \* start, loaded, running, closed, crashed; asking while on_exit
                      \* waits in askyesno; ask_name, ask_unit, ask_coef while
                      \* add_item waits in an askstring
    exc,              \* the exception the last operation raised, "" for none
    calc_runs,        \* calculate() runs since the last schedule_recalculate()
    burst,            \* schedule_recalculate() calls since a callback was last not pending
    synced,           \* the Configuration as of the last completed load() or save()
    saved,            \* <<the Configuration the last save() wrote>>, <<>> before any
    last,             \* the operation that ran last
    events            \* user events handled since the window opened

vars == <<file_exists, file_doc, sales_estimates, supply_items, dark_mode, dirty,
          day_vars, day_entries, override_entry, tree, title, messages,
          after_queue, recalc_after_id, editor, dialog, pc, exc, calc_runs, burst,
          synced,
          saved, last, events>>

dataVars == <<sales_estimates, supply_items, dark_mode, dirty>>

\* what only save() and load() change
storeVars == <<file_exists, file_doc, synced, saved>>

widgetVars == <<day_vars, day_entries, override_entry>>

timerVars == <<after_queue, recalc_after_id, calc_runs, burst>>

uiVars == <<widgetVars, tree, title, messages, timerVars, editor, dialog>>

\* an operation and the arguments it was called with
Call(op, args) == [op |-> op, args |-> args]

Op(op) == Call(op, <<>>)

Config(se, items, dm) == [se |-> se, items |-> items, dm |-> dm]

NoEditor == [open |-> FALSE, row |-> 0, col |-> 0, values |-> <<>>, stale |-> FALSE]

(***************************************************************************)
(* Inputs: the texts a user types and the files a run may find             *)
(***************************************************************************)
T_B == <<"B">>

T_M == <<"M">>

T_kg == <<"k", "g">>

T_x == <<"x">>

T_7 == <<"7">>

T_20 == <<"2", "0">>

T_50 == <<" ", "5", "0">>

T_100 == <<"1", "0", "0">>

\* how many of the day rows (the first ones) the user touches
MaxEditDays == 2

\* supply_items is not grown past this many items
MaxItems == 2

\* user events of one run of the application
MaxEvents == 2

DayTexts == {T_100, T_x}

OverrideTexts == {<<>>, T_50, T_x}

CellTexts == {<<>>, T_7, T_x}

NameTexts == {<<>>, T_B, T_M}

UnitTexts == {<<>>, T_kg}

CoefTexts == {<<>>, T_20, T_x}

\* a document in the current format, written by an earlier run
DocCurrent ==
    JObj(<<
        [k |-> "sales_estimates",
         v |-> JObj([i \in 1..7 |->
                      [k |-> Weekdays[i],
                       v |-> JNum(IF i = 1 THEN 100 ELSE IF i = 2 THEN 120 ELSE 0)]])],
        [k |-> "supply_items",
         v |-> JObj(<<[k |-> T_B, v |-> JList(<<JNum(20), JStr(T_kg), JNum(1)>>)]>>)],
        [k |-> "dark_mode", v |-> JBool(FALSE)]
    >>)

\* the file a run of the application starts with: none, or a document
StartFiles == {[exists |-> FALSE, doc |-> JNull], [exists |-> TRUE, doc |-> DocCurrent]}

(***************************************************************************)
(* SupplyData.__init__ (lines 24-31), load and save                        *)
(***************************************************************************)
Fresh(f) ==
    /\ file_exists = f.exists
    /\ file_doc = f.doc
    /\ sales_estimates = <<>>
    /\ supply_items = <<>>
    /\ dark_mode = TRUE
    /\ dirty = FALSE
    /\ day_vars = <<>>
    /\ day_entries = <<>>
    /\ override_entry = <<>>
    /\ tree = <<>>
    /\ title = <<>>
    /\ messages = <<>>
    /\ after_queue = {}
    /\ recalc_after_id = 0
    /\ editor = NoEditor
    /\ dialog = <<>>
    /\ pc = "start"
    /\ exc = ""
    /\ calc_runs = 0
    /\ burst = 0
    /\ synced = Config(<<>>, <<>>, TRUE)
    /\ saved = <<>>
    /\ last = Op("new")
    /\ events = 0

Init == \E f \in StartFiles : Fresh(f)

\* a variant of lines 76-89 that clears dirty without writing the file
SaveWithoutWriting(se, items, dm) ==
    /\ dirty' = FALSE
    /\ UNCHANGED <<file_exists, file_doc, synced, saved>>

\* save() (lines 76-89): the whole document is written, then dirty is cleared
Save(se, items, dm) ==
    /\ file_exists' = TRUE
    /\ file_doc' = SaveDoc(se, items, dm)
    /\ dirty' = FALSE
    /\ synced' = Config(se, items, dm)
    /\ saved' = <<Config(se, items, dm)>>

\* lines 36-47: no file, so the defaults are stored and saved
LoadDefaults ==
    /\ sales_estimates' = DefaultEstimates
    /\ supply_items' = <<>>
    /\ dark_mode' = TRUE
    /\ Save(DefaultEstimates, <<>>, TRUE)
    /\ exc' = ""

\* lines 49-74, r being what the document loads as
LoadExisting(r) ==
    /\ sales_estimates' = r.se
    /\ supply_items' = r.items
    /\ dark_mode' = r.dm
    /\ exc' = r.err
    /\ synced' = IF r.err = "" THEN Config(r.se, r.items, r.dm) ELSE synced
    /\ UNCHANGED <<file_exists, file_doc, dirty, saved>>

\* load() (lines 33-74)
Load ==
    IF ~file_exists THEN LoadDefaults
    ELSE LoadExisting(LoadDoc(file_doc, sales_estimates, supply_items, dark_mode))

\* data = SupplyData(): an exception of load() ends the process
DataInit ==
    /\ pc = "start"
    /\ Load
    /\ pc' = IF exc' = "" THEN "loaded" ELSE "crashed"
    /\ last' = Op("load")
    /\ UNCHANGED <<uiVars, events>>

(***************************************************************************)
(* SupplyApp: construction and the event handlers                          *)
(***************************************************************************)
\* the effects of a calculate() that returned c, in a handler that has shown `shown`
ApplyCalculate(c, shown) ==
    /\ sales_estimates' = c.se
    /\ tree' = c.tree
    /\ title' = c.title
    /\ messages' = shown \o c.msgs
    /\ editor' = IF editor.open /\ c.done THEN [editor EXCEPT !.stale = TRUE]
                 ELSE editor

\* the call of calculate() inside a handler
RunCalculate(entries, checks, override, shown) ==
    ApplyCalculate(Calculate(sales_estimates, entries, checks, override, supply_items,
                          tree, title), shown)

Scheduled(s) ==
    /\ s.id # 0
    /\ after_queue' = s.queue
    /\ recalc_after_id' = s.id
    /\ calc_runs' = 0
    /\ burst' = IF after_queue = {} THEN 1 ELSE burst + 1

\* the call of schedule_recalculate() inside a handler
RunSchedule == Scheduled(Schedule(after_queue, recalc_after_id))

\* SupplyApp.__init__ (lines 101-214): one checkbox and one entry per key of
\* sales_estimates, an empty override, an empty table, then calculate()
AppInit ==
    /\ pc = "loaded"
    /\ pc' = "running"
    /\ last' = Op("init")
    /\ day_vars' = [i \in 1..Len(sales_estimates) |->
                      [k |-> sales_estimates[i].k, v |-> FALSE]]
    /\ day_entries' = [i \in 1..Len(sales_estimates) |->
                         [k |-> sales_estimates[i].k,
                          v |-> FormatFloat(sales_estimates[i].v)]]
    /\ override_entry' = <<>>
    /\ RunCalculate(day_entries', day_vars', <<>>, <<>>)
    /\ exc' = ""
    /\ UNCHANGED <<supply_items, dark_mode, dirty, storeVars, timerVars, dialog,
                   events>>

\* the days whose checkbox and entry the user touches
TouchDays ==
    {day_entries[i].k : i \in {j \in 1..Len(day_entries) : j <= MaxEditDays}}

\* the widgets of the window other than the cell editor get the user's events
\* while no editor is open and no dialog is shown
Idle == pc = "running" /\ ~editor.open /\ events < MaxEvents

\* a handler that shows no message and raises nothing
Quiet == messages' = <<>> /\ exc' = ""

\* a handler waits in a modal dialog (askyesno of line 417, askstring of lines
\* 386, 387 and 394): the event loop runs, the window gets no input
InDialog == pc \in {"asking", "ask_name", "ask_unit", "ask_coef"}

\* what the handler in progress has shown so far
Shown == IF InDialog THEN messages ELSE <<>>

\* a day checkbox is toggled: the trace of line 178
ToggleDay(d) ==
    /\ Idle
    /\ last' = Op("toggle_day")
    /\ events' = events + 1
    /\ day_vars' = Put(day_vars, d, ~Get(day_vars, d))
    /\ RunSchedule
    /\ Quiet
    /\ UNCHANGED <<dataVars, storeVars, day_entries, override_entry, tree, title,
                   editor, dialog, pc>>

\* a key is released in a day entry, leaving text t: the binding of line 182
TypeDayEntry(d, t) ==
    /\ Idle
    /\ last' = Op("type_day")
    /\ events' = events + 1
    /\ Get(day_entries, d) # t
    /\ day_entries' = Put(day_entries, d, t)
    /\ RunSchedule
    /\ Quiet
    /\ UNCHANGED <<dataVars, storeVars, day_vars, override_entry, tree, title,
                   editor, dialog, pc>>

\* a key is released in the override entry, leaving text t: line 186
TypeOverride(t) ==
    /\ Idle
    /\ last' = Op("type_override")
    /\ events' = events + 1
    /\ override_entry # t
    /\ override_entry' = t
    /\ RunSchedule
    /\ Quiet
    /\ UNCHANGED <<dataVars, storeVars, day_vars, day_entries, tree, title,
                   editor, dialog, pc>>

\* an entry loses the focus, to another widget, to the cell editor or to a
\* dialog that takes it: the bindings of lines 183 and 187 have no condition
FocusOut ==
    /\ pc = "running" \/ InDialog
    /\ events < MaxEvents
    /\ last' = Op("focus_out")
    /\ events' = events + 1
    /\ RunSchedule
    /\ messages' = Shown
    /\ exc' = ""
    /\ UNCHANGED <<dataVars, storeVars, widgetVars, tree, title, editor, dialog, pc>>

\* the timer of schedule_recalculate fires: Tk runs calculate()
TimerFire(id) ==
    /\ pc = "running" \/ InDialog
    /\ id \in after_queue
    /\ last' = Op("calculate")
    /\ after_queue' = after_queue \ {id}
    /\ RunCalculate(day_entries, day_vars, override_entry, Shown)
    /\ calc_runs' = calc_runs + 1
    /\ exc' = ""
    /\ UNCHANGED <<supply_items, dark_mode, dirty, storeVars, widgetVars,
                   recalc_after_id, burst, dialog, pc, events>>

\* on_tree_double_click (lines 263-285): an entry is laid over the cell, and the
\* closure save_edit keeps the row's values as they are now
OpenEditor(row, col) ==
    /\ Idle
    /\ row <= Len(tree)
    /\ last' = Op("double_click")
    /\ events' = events + 1
    /\ editor' = [open |-> TRUE, row |-> row, col |-> col, values |-> tree[row],
                  stale |-> FALSE]
    /\ Quiet
    /\ UNCHANGED <<dataVars, storeVars, widgetVars, tree, title, timerVars, dialog,
                   pc>>

Msg(m, item) == [m |-> m, item |-> item]

\* lines 304-314: the messages of the two float() calls that failed
EditWarnings(name, coef, inventory) ==
    (IF coef.ok THEN <<>> ELSE <<Msg("Invalid coefficient for", name)>>)
        \o (IF inventory.ok THEN <<>> ELSE <<Msg("Invalid inventory for", name)>>)

\* lines 304-317: the triple stored for the row, a failed float() giving 0.0
EditedItem(unit, coef, inventory) ==
    <<IF coef.ok THEN coef.val ELSE 0, unit, IF inventory.ok THEN inventory.val ELSE 0>>

\* lines 297-322, the row's values being vals after line 294
EditStored(vals, name, coef, inventory) ==
    /\ tree' = [tree EXCEPT ![editor.row] = vals]
    /\ supply_items' = Put(supply_items, name,
                           EditedItem(CellStr(vals[2]), coef, inventory))
    /\ Len(supply_items') <= MaxItems
    /\ dirty' = TRUE
    /\ messages' = Shown \o EditWarnings(name, coef, inventory)
                      \o <<Msg("Updated item", name)>>
    /\ RunSchedule
    /\ exc' = ""
    /\ UNCHANGED <<sales_estimates, dark_mode, title>>

EditRow(vals) == EditStored(vals, CellStr(vals[1]), CellFloat(vals[3]), CellFloat(vals[4]))

\* lines 288-322 for a stripped text v: nothing for an empty one; TclError from
\* tree.item() when calculate() has replaced the rows since the editor opened
SaveEdit(v) ==
    IF v = <<>>
    THEN /\ exc' = ""
         /\ messages' = Shown
         /\ UNCHANGED <<dataVars, tree, title, timerVars>>
    ELSE IF editor.stale
    THEN /\ exc' = "TclError"
         /\ messages' = Shown
         /\ UNCHANGED <<dataVars, tree, title, timerVars>>
    ELSE EditRow([editor.values EXCEPT ![editor.col] = StrCell(v)])

\* Return or the loss of focus in the cell editor, its text being t: save_edit
CommitEdit(t) ==
    /\ pc = "running" \/ InDialog
    /\ editor.open
    /\ last' = Call("save_edit", <<t>>)
    /\ editor' = NoEditor
    /\ SaveEdit(Strip(t))
    /\ UNCHANGED <<storeVars, widgetVars, dialog, pc, events>>

\* a variant of lines 391-401 that adds the item with coefficient 0.0 when the
\* coefficient is no number
AddParsedOrZero(name, unit, p) ==
    /\ supply_items' = AddItem(supply_items, name, IF p.ok THEN p.val ELSE 0, unit)
    /\ Len(supply_items') <= MaxItems
    /\ dirty' = TRUE
    /\ messages' = messages \o <<Msg("added (unsaved changes)", name)>>

\* lines 391-401, the coefficient text having parsed as p
AddParsed(name, unit, p) ==
    IF ~p.ok
    THEN /\ messages' = messages \o <<[m |-> "Coefficient must be a number"]>>
         /\ UNCHANGED <<supply_items, dirty>>
    ELSE /\ supply_items' = AddItem(supply_items, name, p.val, unit)
         /\ Len(supply_items') <= MaxItems
         /\ dirty' = TRUE
         /\ messages' = messages \o <<Msg("added (unsaved changes)", name)>>

\* what no step of SupplyApp.add_item touches
addItemFrame == <<sales_estimates, dark_mode, storeVars, widgetVars, tree, title,
                  timerVars, editor, events>>

\* SupplyApp.add_item is called (line 384) and shows "Item Name:" (line 386); no
\* widget of the window is bound to it and it checks nothing, the method is
\* what runs
AddItemOpen ==
    /\ pc = "running"
    /\ events < MaxEvents
    /\ pc' = "ask_name"
    /\ dialog' = <<>>
    /\ last' = Op("add_item_open")
    /\ events' = events + 1
    /\ Quiet
    /\ UNCHANGED <<dataVars, storeVars, widgetVars, tree, title, timerVars, editor>>

\* "Item Name:" is answered name (<<>> for a cancelled or empty answer) and
\* "Unit" is shown (line 387)
AnswerName(name) ==
    /\ pc = "ask_name"
    /\ pc' = "ask_unit"
    /\ dialog' = <<name>>
    /\ last' = Op("add_item_name")
    /\ exc' = ""
    /\ UNCHANGED <<supply_items, dirty, messages, addItemFrame>>

\* "Unit" is answered unit: add_item returns when the unit or the name is
\* missing (lines 388-391) and shows "UPT Coefficient:" otherwise (line 394)
AnswerUnit(unit) ==
    /\ pc = "ask_unit"
    /\ IF unit = <<>> \/ dialog[1] = <<>>
       THEN /\ pc' = "running"
            /\ dialog' = <<>>
            /\ last' = Call("add_item_flow", <<dialog[1], unit, <<>>>>)
       ELSE /\ pc' = "ask_coef"
            /\ dialog' = <<dialog[1], unit>>
            /\ last' = Op("add_item_unit")
    /\ exc' = ""
    /\ UNCHANGED <<supply_items, dirty, messages, addItemFrame>>

\* "UPT Coefficient:" is answered coefText: lines 393-401
AnswerCoefficient(coefText) ==
    /\ pc = "ask_coef"
    /\ pc' = "running"
    /\ dialog' = <<>>
    /\ last' = Call("add_item_flow", <<dialog[1], dialog[2], coefText>>)
    /\ AddParsed(dialog[1], dialog[2],
                 ParseFloat(IF coefText = <<>> THEN <<"0">> ELSE coefText))
    /\ exc' = ""
    /\ UNCHANGED addItemFrame

\* toggle_dark_mode (lines 219-223)
ToggleDarkMode ==
    /\ Idle
    /\ last' = Op("toggle_dark_mode")
    /\ events' = events + 1
    /\ dark_mode' = ~dark_mode
    /\ dirty' = TRUE
    /\ messages' = <<[m |-> "Dark Mode for next startup", on |-> dark_mode']>>
    /\ exc' = ""
    /\ UNCHANGED <<sales_estimates, supply_items, storeVars, widgetVars, tree, title,
                   timerVars, editor, dialog, pc>>

\* a variant of lines 403-413 that saves although an entry was refused
SaveAfterAnyEntry(u) ==
    /\ sales_estimates' = u.se
    /\ Save(u.se, supply_items, dark_mode)
    /\ messages' = <<[m |-> "Supplies configuration saved successfully"]>>

\* SupplyApp.save (lines 403-413), u being what lines 405-410 made of the entries
SaveAfter(u) ==
    /\ sales_estimates' = u.se
    /\ IF u.bad # <<>>
       THEN /\ messages' = <<[m |-> "Invalid number for", day |-> u.bad[1]]>>
            /\ UNCHANGED <<dirty, storeVars>>
       ELSE /\ Save(u.se, supply_items, dark_mode)
            /\ messages' = <<[m |-> "Supplies configuration saved successfully"]>>

\* Control-s (line 107), bound on the root window: it runs whichever widget of
\* the window has the focus, the cell editor included
SaveUI ==
    /\ pc = "running"
    /\ events < MaxEvents
    /\ last' = Op("save")
    /\ events' = events + 1
    /\ SaveAfter(UpdateEstimates(sales_estimates, day_entries))
    /\ exc' = ""
    /\ UNCHANGED <<supply_items, dark_mode, widgetVars, tree, title, timerVars,
                   editor, dialog, pc>>

\* root.destroy() (line 419): the widgets and the pending callbacks are gone
Destroy ==
    /\ pc' = "closed"
    /\ day_vars' = <<>>
    /\ day_entries' = <<>>
    /\ override_entry' = <<>>
    /\ tree' = <<>>
    /\ title' = <<>>
    /\ messages' = <<>>
    /\ after_queue' = {}
    /\ recalc_after_id' = 0
    /\ calc_runs' = 0
    /\ burst' = 0
    /\ editor' = NoEditor
    /\ dialog' = <<>>
    /\ exc' = ""

\* on_exit (lines 415-419) up to the question of line 417; the window can be
\* closed while the cell editor is open
OnExit ==
    /\ pc = "running"
    /\ last' = Op("on_exit")
    /\ IF dirty
       THEN /\ pc' = "asking"
            /\ Quiet
            /\ UNCHANGED <<widgetVars, tree, title, timerVars, editor, dialog>>
       ELSE Destroy
    /\ UNCHANGED <<dataVars, storeVars, events>>

\* a variant of lines 417-419 that saves whatever the answer
AnswerIgnored(yes) ==
    /\ pc = "asking"
    /\ last' = Call("on_exit_answer", <<yes>>)
    /\ Save(sales_estimates, supply_items, dark_mode)
    /\ Destroy
    /\ UNCHANGED <<sales_estimates, supply_items, dark_mode, events>>

\* lines 417-419: the answer to "Save changes before exit?"
Answer(yes) ==
    /\ pc = "asking"
    /\ last' = Call("on_exit_answer", <<yes>>)
    /\ IF yes THEN Save(sales_estimates, supply_items, dark_mode)
       ELSE UNCHANGED <<dirty, storeVars>>
    /\ Destroy
    /\ UNCHANGED <<sales_estimates, supply_items, dark_mode, events>>

Next ==
    \/ DataInit
    \/ AppInit
    \/ \E d \in TouchDays : ToggleDay(d)
    \/ \E d \in TouchDays, t \in DayTexts : TypeDayEntry(d, t)
    \/ \E t \in OverrideTexts : TypeOverride(t)
    \/ FocusOut
    \/ \E id \in 1..MaxTimers : TimerFire(id)
    \/ \E row \in 1..MaxItems, col \in 1..5 : OpenEditor(row, col)
    \/ \E t \in CellTexts : CommitEdit(t)
    \/ AddItemOpen
    \/ \E name \in NameTexts : AnswerName(name)
    \/ \E unit \in UnitTexts : AnswerUnit(unit)
    \/ \E coefText \in CoefTexts : AnswerCoefficient(coefText)
    \/ ToggleDarkMode
    \/ SaveUI
    \/ OnExit
    \/ \E yes \in BOOLEAN : Answer(yes)

Spec == Init /\ [][Next]_vars

(***************************************************************************)
(* SupplyData on its own: a SupplyData is constructed over a file of any   *)
(* of the shapes below, and load(), save() and add_item() are then called  *)
(* in any order.                                                           *)
(***************************************************************************)
T_ACME == <<"A", "C", "M", "E">>

\* calls made on one SupplyData after its construction
MaxCalls == 3

Pair(k, v) == [k |-> k, v |-> v]

\* "sales_estimates" of a document: absent, all seven days, two days only (one of
\* them a numeral in a string), or a list of seven numbers
SalesForms ==
    { <<>>,
      <<Pair("sales_estimates",
             JObj([i \in 1..7 |->
                     Pair(Weekdays[i],
                          JNum(IF i = 1 THEN 100 ELSE IF i = 2 THEN 120 ELSE 0))]))>>,
      <<Pair("sales_estimates",
             JObj(<<Pair("Monday", JNum(100)), Pair("Tuesday", JStr(T_7))>>))>>,
      <<Pair("sales_estimates",
             JList([i \in 1..7 |-> JNum(IF i = 1 THEN 100 ELSE 0)]))>> }

\* the record of one item: lists of 2, 3 and 4 fields, a bare number, and a
\* list of 3 whose coefficient is no number
ItemRecords ==
    { JList(<<JNum(20), JStr(T_kg)>>),
      JList(<<JNum(20), JStr(T_kg), JNum(1)>>),
      JNum(20),
      JList(<<JNum(20), JStr(T_kg), JNum(1), JStr(T_ACME)>>),
      JList(<<JStr(T_x), JStr(T_kg), JNum(1)>>) }

\* "supply_items" of a document: absent, empty, one item, or that item
\* followed by a second one in the current format
ItemForms ==
    { <<>>, <<Pair("supply_items", JObj(<<>>))>> }
    \cup { <<Pair("supply_items", JObj(<<Pair(T_B, r)>>))>> : r \in ItemRecords }
    \cup { <<Pair("supply_items",
                  JObj(<<Pair(T_B, r),
                         Pair(T_M, JList(<<JNum(7), JStr(<<>>), JNum(2)>>))>>))>> :
             r \in ItemRecords }

DarkModeForms ==
    { <<>>, <<Pair("dark_mode", JBool(TRUE))>>, <<Pair("dark_mode", JBool(FALSE))>> }

DataFiles ==
    { [exists |-> FALSE, doc |-> JNull] }
    \cup { [exists |-> TRUE, doc |-> JObj(s \o i \o d)] :
             s \in SalesForms, i \in ItemForms, d \in DarkModeForms }

InitData == \E f \in DataFiles : Fresh(f)

Callable == pc = "loaded" /\ events < MaxCalls

\* load() called again on the SupplyData
DataLoad ==
    /\ Callable
    /\ Load
    /\ pc' = IF exc' = "" THEN "loaded" ELSE "crashed"
    /\ last' = Op("load")
    /\ events' = events + 1
    /\ UNCHANGED uiVars

\* save()
DataSave ==
    /\ Callable
    /\ Save(sales_estimates, supply_items, dark_mode)
    /\ exc' = ""
    /\ last' = Op("save")
    /\ events' = events + 1
    /\ UNCHANGED <<sales_estimates, supply_items, dark_mode, uiVars, pc>>

NameArgs == {<<>>, T_B, T_M}

CoefArgs == {0, 7}

UnitArgs == {<<>>, T_kg}

\* add_item(name, coef, unit) (lines 91-94)
DataAddItem(name, coef, unit) ==
    /\ Callable
    /\ supply_items' = AddItem(supply_items, name, coef, unit)
    /\ Len(supply_items') <= MaxItems
    /\ dirty' = TRUE
    /\ exc' = ""
    /\ last' = Call("add_item", <<name, coef, unit>>)
    /\ events' = events + 1
    /\ UNCHANGED <<sales_estimates, dark_mode, storeVars, uiVars, pc>>

NextData ==
    \/ DataInit
    \/ DataLoad
    \/ DataSave
    \/ \E name \in NameArgs, coef \in CoefArgs, unit \in UnitArgs :
          DataAddItem(name, coef, unit)

SpecData == InitData /\ [][NextData]_vars

(***************************************************************************)
(* Properties                                                              *)
(***************************************************************************)
CalculationDone ==
    messages # <<>> /\ messages[Len(messages)] = [m |-> "Calculation done"]

\* calculate() was the last thing to run, and it ran to the end
CalculateCompleted == last.op \in {"init", "calculate"} /\ CalculationDone

\* C1: every row calculate() wrote shows a required quantity >= 0; after a
\* calculate() that ran to the end there is one row per supply item, and it
\* shows max(0, total_sales / 1000 * coefficient - inventory), in thousandths
C1_RequiredNeverNegative ==
    /\ \A i \in 1..Len(tree) : tree[i][5].c = "milli" => tree[i][5].n >= 0
    /\ CalculateCompleted =>
         /\ Len(tree) = Len(supply_items)
         /\ \A i \in 1..Len(tree) :
              tree[i][5] =
                MilliCell(IF title[1] * supply_items[i].v[1]
                               < 1000 * supply_items[i].v[3]
                          THEN 0
                          ELSE title[1] * supply_items[i].v[1]
                                 - 1000 * supply_items[i].v[3])

\* the timer ran calculate() over an item whose inventory exceeds its need,
\* and the row shows 0
C1_InventoryExceedsNeed ==
    /\ last.op = "calculate"
    /\ CalculationDone
    /\ \E i \in 1..Len(tree) :
         /\ title[1] * supply_items[i].v[1] < 1000 * supply_items[i].v[3]
         /\ tree[i][5] = MilliCell(0)

\* C3: when calculate() runs to the end while the override entry is non-empty
\* and numeric, the total it uses is the override value, whatever the days
\* selected and their estimates: " 50" gives 50
C3_OverrideReplacesDaySum ==
    (/\ CalculateCompleted
     /\ Strip(override_entry) # <<>>
     /\ ParseFloat(override_entry).ok)
    => /\ title = <<ParseFloat(override_entry).val>>
       /\ override_entry = T_50 => title = <<50>>

\* calculate() ran with override " 50" while Monday, estimated at 100, was selected
C3_OverrideOverSelectedDays ==
    /\ last.op = "calculate"
    /\ CalculationDone
    /\ override_entry = T_50
    /\ Get(day_vars, "Monday")
    /\ Get(sales_estimates, "Monday") = 100
    /\ title = <<50>>

\* C4: while the window is open at most one calculate callback is pending, and
\* it is the one of the last schedule_recalculate(); since that call calculate()
\* has run once if the callback fired and not at all otherwise, however many
\* events the burst had; the run leaves in sales_estimates the entries as they
\* are after the last event, and totals the days selected then
C4_Debounce ==
    /\ Cardinality(after_queue) <= 1
    /\ after_queue \subseteq {recalc_after_id}
    /\ burst >= 1 => calc_runs + Cardinality(after_queue) = 1
    /\ (last.op = "calculate" /\ CalculationDone) =>
         /\ \A i \in 1..Len(day_entries) :
              Get(sales_estimates, day_entries[i].k) = ParseFloat(day_entries[i].v).val
         /\ Strip(override_entry) = <<>> => title = <<DaySum(sales_estimates, day_vars)>>

\* a burst of two events was followed by one run of calculate(), which totalled
\* the day selected and the estimate typed during the burst
C4_BurstOfTwo ==
    /\ burst = 2
    /\ calc_runs = 1
    /\ after_queue = {}
    /\ last.op = "calculate"
    /\ Get(day_vars, "Tuesday")
    /\ Get(day_entries, "Tuesday") = T_100
    /\ title = <<100>>

\* C5: whenever sales_estimates, supply_items or dark_mode differ from what was
\* last saved or loaded, dirty is true
C5_DirtyOnEveryMutation ==
    pc \in {"loaded", "running", "asking", "closed"}
    => (Config(sales_estimates, supply_items, dark_mode) # synced => dirty)

\* load() was the last call, and it read a file holding a JSON object
LoadedFile == last.op = "load" /\ file_exists /\ file_doc.t = "obj"

\* C2: a load() that follows a save() on the same path yields the Configuration
\* that was saved, field for field, and a save() of what it loaded would write
\* the document the file holds
C2_SaveLoadRoundTrip ==
    (last.op = "load" /\ saved # <<>>)
    => /\ exc = ""
       /\ Config(sales_estimates, supply_items, dark_mode) = saved[1]
       /\ SaveDoc(sales_estimates, supply_items, dark_mode) = file_doc

\* a Configuration with a stocked item, an added item and dark mode off was
\* saved and then loaded
C2_SavedThenLoaded ==
    /\ last.op = "load"
    /\ saved # <<>>
    /\ events >= 2
    /\ ~dark_mode
    /\ \E i \in 1..Len(supply_items) : supply_items[i].v[3] # 0
    /\ \E i \in 1..Len(supply_items) : supply_items[i].v = <<7, T_kg, 0>>

\* C6: load() maps an item record [coefficient, unit] to (coefficient, unit, 0.0),
\* a record [coefficient, unit, inventory] to those three values and a bare
\* number to (number, "", 0.0)
C6_LegacyItemRecords ==
    (LoadedFile /\ exc = "")
    => \A i \in 1..Len(RawItems(file_doc).o) :
         /\ HasKey(supply_items, RawItems(file_doc).o[i].k)
         /\ (/\ RawItems(file_doc).o[i].v.t = "list"
             /\ Len(RawItems(file_doc).o[i].v.l) = 2)
            => Get(supply_items, RawItems(file_doc).o[i].k)
                 = <<RawItems(file_doc).o[i].v.l[1].n,
                     RawItems(file_doc).o[i].v.l[2].s, 0>>
         /\ (/\ RawItems(file_doc).o[i].v.t = "list"
             /\ Len(RawItems(file_doc).o[i].v.l) = 3)
            => Get(supply_items, RawItems(file_doc).o[i].k)
                 = <<RawItems(file_doc).o[i].v.l[1].n,
                     RawItems(file_doc).o[i].v.l[2].s,
                     RawItems(file_doc).o[i].v.l[3].n>>
         /\ RawItems(file_doc).o[i].v.t = "num"
            => Get(supply_items, RawItems(file_doc).o[i].k)
                 = <<RawItems(file_doc).o[i].v.n, <<>>, 0>>

\* a document whose first item is [20, "kg"] and whose second is [7, "", 2]
\* was loaded
C6_TwoFieldRecordLoaded ==
    /\ LoadedFile
    /\ exc = ""
    /\ Len(RawItems(file_doc).o) = 2
    /\ RawItems(file_doc).o[1].v = JList(<<JNum(20), JStr(T_kg)>>)
    /\ supply_items = <<Pair(T_B, <<20, T_kg, 0>>), Pair(T_M, <<7, <<>>, 2>>)>>

\* C7: load() of a document whose sales estimates are a mapping and that holds an
\* item record of length 4 succeeds, and the item is present with the record's
\* coefficient, unit and inventory
C7_FourFieldRecordLoads ==
    (LoadedFile /\ RawEstimates(file_doc).t = "obj")
    => \A i \in 1..Len(RawItems(file_doc).o) :
         (/\ RawItems(file_doc).o[i].v.t = "list"
          /\ Len(RawItems(file_doc).o[i].v.l) = 4)
         => /\ exc = ""
            /\ HasKey(supply_items, RawItems(file_doc).o[i].k)
            /\ Get(supply_items, RawItems(file_doc).o[i].k)
                 = <<RawItems(file_doc).o[i].v.l[1].n,
                     RawItems(file_doc).o[i].v.l[2].s,
                     RawItems(file_doc).o[i].v.l[3].n>>

\* C8: load() of a document whose sales estimates are a list of seven numbers
\* succeeds and maps each weekday, Monday first, to the number at its position
C8_ListEstimatesLoad ==
    (/\ LoadedFile
     /\ RawEstimates(file_doc).t = "list"
     /\ Len(RawEstimates(file_doc).l) = 7)
    => /\ exc = ""
       /\ \A i \in 1..7 :
            /\ HasKey(sales_estimates, Weekdays[i])
            /\ Get(sales_estimates, Weekdays[i]) = RawEstimates(file_doc).l[i].n

\* C9: once load() has returned, the keys of sales_estimates are exactly the
\* seven weekdays
C9_SevenWeekdays ==
    pc = "loaded" => Keys(sales_estimates) = {Weekdays[i] : i \in 1..7}

\* C10: add_item(name, coef, unit) leaves name with (coef, unit, 0.0) whether or
\* not it was present, raises nothing, leaves dirty true, and leaves every
\* other item as it was
C10_AddItemReplaces ==
    [][last'.op = "add_item"
       => /\ exc' = ""
          /\ dirty'
          /\ Keys(supply_items') = Keys(supply_items) \cup {last'.args[1]}
          /\ Get(supply_items', last'.args[1]) = <<last'.args[2], last'.args[3], 0>>
          /\ \A k \in Keys(supply_items) \ {last'.args[1]} :
               Get(supply_items', k) = Get(supply_items, k)]_vars

\* add_item("B", 7.0, "") ran over an item B loaded with inventory 1 and a
\* second item, which is as it was loaded
C10_StockedItemReplaced ==
    /\ last = Call("add_item", <<T_B, 7, <<>>>>)
    /\ HasKey(synced.items, T_B)
    /\ Get(synced.items, T_B) = <<20, T_kg, 1>>
    /\ supply_items = <<Pair(T_B, <<7, <<>>, 0>>), Pair(T_M, <<7, <<>>, 2>>)>>
    /\ dirty

\* C11: add_item called with an empty name raises nothing and leaves no entry
\* with key "" in supply_items
C11_EmptyNameIgnored ==
    (last.op = "add_item" /\ last.args[1] = <<>>)
    => (exc = "" /\ ~HasKey(supply_items, <<>>))

\* the document load() must leave in a file it creates: the seven weekdays at
\* 0.0, no item, dark mode on
FirstRunDoc ==
    JObj(<<Pair("sales_estimates", JObj([i \in 1..7 |-> Pair(Weekdays[i], JNum(0))])),
           Pair("supply_items", JObj(<<>>)),
           Pair("dark_mode", JBool(TRUE))>>)

\* C12: a load() that finds no file leaves the seven weekdays at 0.0, no item
\* and dark_mode true in memory, and a file that holds exactly that
\* Configuration, with dirty false
C12_FirstRunBootstrap ==
    [][(~file_exists /\ last'.op = "load")
       => /\ exc' = ""
          /\ sales_estimates' = [i \in 1..7 |-> Pair(Weekdays[i], 0)]
          /\ supply_items' = <<>>
          /\ dark_mode'
          /\ ~dirty'
          /\ file_exists'
          /\ file_doc' = FirstRunDoc]_vars

\* a SupplyData was constructed where no file existed
C12_FileCreated ==
    /\ pc = "loaded"
    /\ events = 0
    /\ saved # <<>>
    /\ file_exists
    /\ file_doc = FirstRunDoc
    /\ Len(sales_estimates) = 7
    /\ ~dirty

\* some day entry, or a non-empty override entry, is no number
Unparsable ==
    \/ \E i \in 1..Len(day_entries) : ~ParseFloat(day_entries[i].v).ok
    \/ (Strip(override_entry) # <<>> /\ ~ParseFloat(override_entry).ok)

\* C13: a calculate() that runs while a day entry or a non-empty override entry
\* is no number leaves the rows of the table as they were, shows an error
\* message and does not show "Calculation done"
C13_AbortOnUnparsable ==
    [][(last'.op = "calculate" /\ Unparsable)
       => /\ tree' = tree
          /\ Len(messages') = Len(Shown) + 1
          /\ messages'[Len(messages')].m
               \in {"Invalid number for", "Override must be a number"}
          /\ \A i \in 1..Len(Shown) : messages'[i] = Shown[i]]_vars

\* the timer ran calculate() over the override "x" and a table with rows
C13_OverrideRejected ==
    /\ last.op = "calculate"
    /\ override_entry = T_x
    /\ tree # <<>>
    /\ messages = <<[m |-> "Override must be a number"]>>

\* C14: load() of a document that holds an item record [coefficient, unit,
\* inventory] whose coefficient is a string that is no number completes, stores
\* 0.0 for that coefficient and loads every item of the document
C14_NonNumericFieldDefaults ==
    (LoadedFile /\ RawEstimates(file_doc).t = "obj")
    => \A i \in 1..Len(RawItems(file_doc).o) :
         (/\ RawItems(file_doc).o[i].v.t = "list"
          /\ Len(RawItems(file_doc).o[i].v.l) = 3
          /\ RawItems(file_doc).o[i].v.l[1].t = "str"
          /\ ~ParseFloat(RawItems(file_doc).o[i].v.l[1].s).ok)
         => /\ exc = ""
            /\ \A j \in 1..Len(RawItems(file_doc).o) :
                 HasKey(supply_items, RawItems(file_doc).o[j].k)
            /\ Get(supply_items, RawItems(file_doc).o[i].k)[1] = 0

\* the estimate of day d if its checkbox is selected, 0 otherwise
Selected(d) ==
    IF HasKey(day_vars, d) /\ Get(day_vars, d) THEN Get(sales_estimates, d) ELSE 0

\* C15: when calculate() runs to the end with an empty override entry, its
\* total is the sum of sales_estimates[d] over the selected days; with no day
\* selected the total is 0 and every item with inventory >= 0 shows 0
C15_DaySum ==
    (CalculateCompleted /\ Strip(override_entry) = <<>>)
    => /\ Keys(day_vars) \subseteq {Weekdays[i] : i \in 1..7}
       /\ title = <<Selected("Monday") + Selected("Tuesday") + Selected("Wednesday")
                     + Selected("Thursday") + Selected("Friday")
                     + Selected("Saturday") + Selected("Sunday")>>
       /\ (\A i \in 1..Len(day_vars) : ~day_vars[i].v)
          => /\ title = <<0>>
             /\ \A i \in 1..Len(tree) :
                  supply_items[i].v[3] >= 0 => tree[i][5] = MilliCell(0)

\* the timer ran calculate() with Monday (100) selected, Tuesday (120) not
\* selected and no override
C15_MondayOnly ==
    /\ last.op = "calculate"
    /\ CalculationDone
    /\ override_entry = <<>>
    /\ Get(day_vars, "Monday")
    /\ ~Get(day_vars, "Tuesday")
    /\ Get(sales_estimates, "Tuesday") = 120
    /\ title = <<100>>

\* C16: dirty goes from true to false only in a step that runs
\* SupplyData.save() (from SupplyApp.save or from the answer to on_exit), and
\* the file then holds the whole document of the Configuration in memory
C16_DirtyClearedOnlyBySave ==
    [][(dirty /\ ~dirty')
       => /\ last'.op \in {"save", "on_exit_answer"}
          /\ file_exists'
          /\ file_doc' = SaveDoc(sales_estimates', supply_items', dark_mode')
          /\ saved' = <<Config(sales_estimates', supply_items', dark_mode')>>]_vars

\* dark mode was toggled over the loaded document and the Configuration saved
C16_SavedAfterToggle ==
    /\ last.op = "save"
    /\ ~dirty
    /\ dark_mode
    /\ supply_items = <<Pair(T_B, <<20, T_kg, 1>>)>>
    /\ file_doc = SaveDoc(sales_estimates, supply_items, dark_mode)

\* the text float() is given for the coefficient: an empty answer counts as "0"
CoefficientText(t) == IF t = <<>> THEN <<"0">> ELSE t

\* C17: an add-item flow whose name or unit is missing, or whose coefficient
\* is no number, leaves supply_items and dirty as they were; a flow with name,
\* unit and a numeric (or empty) coefficient leaves the item with that
\* coefficient and unit, and nothing else changed
C17_CancelledAddCreatesNothing ==
    [][last'.op = "add_item_flow"
       => IF \/ last'.args[1] = <<>>
             \/ last'.args[2] = <<>>
             \/ ~ParseFloat(CoefficientText(last'.args[3])).ok
          THEN supply_items' = supply_items /\ dirty' = dirty
          ELSE /\ Keys(supply_items') = Keys(supply_items) \cup {last'.args[1]}
               /\ Get(supply_items', last'.args[1])
                    = <<ParseFloat(CoefficientText(last'.args[3])).val, last'.args[2], 0>>
               /\ \A k \in Keys(supply_items) \ {last'.args[1]} :
                    Get(supply_items', k) = Get(supply_items, k)]_vars

\* the flow was answered "M", "kg" and "x": no item M, and the message
C17_BadCoefficientRejected ==
    /\ last = Call("add_item_flow", <<T_M, T_kg, T_x>>)
    /\ ~HasKey(supply_items, T_M)
    /\ ~dirty
    /\ messages = <<[m |-> "Coefficient must be a number"]>>

\* C18: on_exit() asks whether to save exactly when dirty is true, and closes
\* the window without asking and without writing otherwise; after the answer
\* the window is closed, and the file was written with the Configuration in
\* memory if the answer was yes and left alone if it was no
C18_ExitPromptGate ==
    [][/\ last'.op = "on_exit"
          => /\ (pc' = "asking") <=> dirty
             /\ (pc' = "closed") <=> ~dirty
             /\ file_exists' = file_exists
             /\ file_doc' = file_doc
             /\ dirty' = dirty
       /\ last'.op = "on_exit_answer"
          => /\ pc = "asking"
             /\ dirty
             /\ pc' = "closed"
             /\ IF last'.args[1]
                THEN /\ file_exists'
                     /\ file_doc' = SaveDoc(sales_estimates, supply_items, dark_mode)
                     /\ ~dirty'
                ELSE /\ file_exists' = file_exists
                     /\ file_doc' = file_doc
                     /\ dirty']_vars

\* dark mode was toggled over the loaded document, the window closed and the
\* question answered yes
C18_SavedOnExit ==
    /\ last = Call("on_exit_answer", <<TRUE>>)
    /\ pc = "closed"
    /\ ~dirty
    /\ dark_mode
    /\ supply_items = <<Pair(T_B, <<20, T_kg, 1>>)>>
    /\ file_doc = SaveDoc(sales_estimates, supply_items, dark_mode)

\* C19: a SupplyApp.save() that runs while a day entry is no number leaves the
\* file and dirty as they were and shows "Invalid number for <day>" and
\* nothing else; and whenever the file changes, a SupplyData.save() has run to
\* its end: the file holds the document of the Configuration in memory and
\* dirty is false
C19_FailedSaveWritesNothing ==
    [][/\ (/\ last'.op = "save"
           /\ \E i \in 1..Len(day_entries) : ~ParseFloat(day_entries[i].v).ok)
          => /\ file_exists' = file_exists
             /\ file_doc' = file_doc
             /\ dirty' = dirty
             /\ Len(messages') = 1
             /\ messages'[1].m = "Invalid number for"
       /\ (file_exists' # file_exists \/ file_doc' # file_doc)
          => /\ last'.op \in {"load", "save", "on_exit_answer"}
             /\ file_exists'
             /\ file_doc' = SaveDoc(sales_estimates', supply_items', dark_mode')
             /\ ~dirty']_vars

\* Control-s was pressed while the Monday entry held "x", over the loaded file
C19_SaveRefused ==
    /\ last.op = "save"
    /\ Get(day_entries, "Monday") = T_x
    /\ messages = <<[m |-> "Invalid number for", day |-> "Monday"]>>
    /\ file_doc = DocCurrent

\* C20: a cell edit that commits a non-empty value leaves the key set of
\* supply_items as it was, changes at most the item of the edited row, and
\* leaves dirty true; committing an empty value changes nothing
C20_EditKeepsKeySet ==
    [][last'.op = "save_edit"
       => IF Strip(last'.args[1]) = <<>>
          THEN supply_items' = supply_items /\ dirty' = dirty /\ tree' = tree
          ELSE /\ Keys(supply_items') = Keys(supply_items)
               /\ \A k \in Keys(supply_items) \ {CellStr(editor.values[1])} :
                    Get(supply_items', k) = Get(supply_items, k)
               /\ dirty']_vars

=============================================================================
